---- MODULE Spec2Model ----
(***************************************************************************)
(* Model of the source-text classifier of frontend/pages/CodeAnalysis.tsx: *)
(* the pattern registry LANGUAGE_PATTERNS, the prose scorer isPlainText    *)
(* and the orchestrator detectLanguage.                                    *)
(*                                                                         *)
(* A text is a sequence of one-character strings (UTF-16 code units).  The *)
(* regular expressions of the source are transcribed as syntax trees and   *)
(* evaluated by a small matcher (Ends) that follows the ECMAScript         *)
(* semantics of the constructs the source uses.                            *)
(***************************************************************************)
EXTENDS Integers, Sequences, FiniteSets, TLC

(***************************************************************************)
(* Characters and strings.                                                 *)
(***************************************************************************)
\* A JavaScript string as the sequence of its code units.
Chars(str) == [i \in 1..Len(str) |-> SubSeq(str, i, i)]

LowerCase == {"a","b","c","d","e","f","g","h","i","j","k","l","m",
              "n","o","p","q","r","s","t","u","v","w","x","y","z"}
UpperCase == {"A","B","C","D","E","F","G","H","I","J","K","L","M",
              "N","O","P","Q","R","S","T","U","V","W","X","Y","Z"}
Digit == {"0","1","2","3","4","5","6","7","8","9"}
\* \w
WordChar == LowerCase \cup UpperCase \cup Digit \cup {"_"}
\* Line terminators of the alphabet used here (\n, \r).
LineTerminator == {"\n", "\r"}
\* \s, and the characters String.prototype.trim strips.
WhiteSpace == {" ", "\t", "\f"} \cup LineTerminator
\* The non-ASCII characters of the bullet class, named by code point.
Bullet == "U+2022"
CheckMark == "U+2705"
CrossMark == "U+274C"

UpperOf == [a |-> "A", b |-> "B", c |-> "C", d |-> "D", e |-> "E", f |-> "F",
            g |-> "G", h |-> "H", i |-> "I", j |-> "J", k |-> "K", l |-> "L",
            m |-> "M", n |-> "N", o |-> "O", p |-> "P", q |-> "Q", r |-> "R",
            s |-> "S", t |-> "T", u |-> "U", v |-> "V", w |-> "W", x |-> "X",
            y |-> "Y", z |-> "Z"]
\* Canonicalize of an /i pattern: the upper-case form of a code unit.
Canon(ch) == IF ch \in LowerCase THEN UpperOf[ch] ELSE ch
CanonSeq(w) == [i \in 1..Len(w) |-> Canon(w[i])]

\* String.prototype.trim
RECURSIVE TrimStart(_)
TrimStart(s) ==
  IF s # <<>> /\ Head(s) \in WhiteSpace THEN TrimStart(Tail(s)) ELSE s
RECURSIVE TrimEnd(_)
TrimEnd(s) ==
  IF s # <<>> /\ s[Len(s)] \in WhiteSpace
  THEN TrimEnd(SubSeq(s, 1, Len(s) - 1)) ELSE s
trim(s) == TrimEnd(TrimStart(s))

\* String.prototype.split('\n'): the pieces between the newlines.
RECURSIVE SplitFrom(_, _, _)
SplitFrom(s, from, i) ==
  IF i > Len(s) THEN <<SubSeq(s, from, Len(s))>>
  ELSE IF s[i] = "\n"
       THEN <<SubSeq(s, from, i - 1)>> \o SplitFrom(s, i + 1, i + 1)
       ELSE SplitFrom(s, from, i + 1)
split(s) == SplitFrom(s, 1, 1)

\* Array.prototype.filter(l => l.trim()): the lines that are not blank.
filter(ls) == SelectSeq(ls, LAMBDA l : trim(l) # <<>>)

(***************************************************************************)
(* Regular expressions: syntax trees and the matcher.                      *)
(***************************************************************************)
Lit(str) == [k |-> "lit", w |-> Chars(str)]
Cls(S) == [k |-> "cls", S |-> S]
NCls(S) == [k |-> "ncls", S |-> S]
Cat(rs) == [k |-> "cat", rs |-> rs]
Or(rs) == [k |-> "or", rs |-> rs]
Star(r) == [k |-> "star", r |-> r]
Plus(r) == Cat(<<r, Star(r)>>)
Opt(r) == [k |-> "opt", r |-> r]
Bol == [k |-> "bol"]
Eol == [k |-> "eol"]
WordB == [k |-> "wb"]
NotBehind(S) == [k |-> "nlb", S |-> S]
Words(ws) == Or([n \in 1..Len(ws) |-> Lit(ws[n])])
Sp == Plus(Cls(WhiteSpace))
Ss == Star(Cls(WhiteSpace))
Wp == Plus(Cls(WordChar))
Ws == Star(Cls(WordChar))
\* . matches every code unit but a line terminator
Dot == NCls(LineTerminator)

NoFlags == {}

IsWordAt(s, i) == i >= 1 /\ i <= Len(s) /\ s[i] \in WordChar

ClassHas(S, ch, flags) ==
  \/ ch \in S
  \/ "i" \in flags /\ \E c \in S : Canon(c) = Canon(ch)

RECURSIVE Ends(_, _, _, _)
RECURSIVE CatEnds(_, _, _, _, _)
RECURSIVE StarEnds(_, _, _, _, _)
\* The positions (0..Len(s)) at which a match of r that starts at one of the
\* positions of I can end.
Ends(r, s, flags, I) ==
  IF I = {} THEN {}
  ELSE CASE r.k = "lit" ->
              LET n == Len(r.w)
                  same(j) == IF "i" \in flags
                             THEN CanonSeq(SubSeq(s, j + 1, j + n)) = CanonSeq(r.w)
                             ELSE SubSeq(s, j + 1, j + n) = r.w
              IN  {j + n : j \in {i \in I : i + n <= Len(s) /\ same(i)}}
         [] r.k = "cls" ->
              {j + 1 : j \in {i \in I : i < Len(s) /\ ClassHas(r.S, s[i + 1], flags)}}
         [] r.k = "ncls" ->
              {j + 1 : j \in {i \in I : i < Len(s) /\ ~ClassHas(r.S, s[i + 1], flags)}}
         [] r.k = "cat" -> CatEnds(r.rs, 1, s, flags, I)
         [] r.k = "or" -> UNION {Ends(r.rs[n], s, flags, I) : n \in 1..Len(r.rs)}
         [] r.k = "star" -> StarEnds(r.r, s, flags, I, I)
         [] r.k = "opt" -> I \cup Ends(r.r, s, flags, I)
         [] r.k = "bol" ->
              {i \in I : i = 0 \/ ("m" \in flags /\ s[i] \in LineTerminator)}
         [] r.k = "eol" ->
              {i \in I : i = Len(s) \/ ("m" \in flags /\ s[i + 1] \in LineTerminator)}
         [] r.k = "wb" -> {i \in I : IsWordAt(s, i) # IsWordAt(s, i + 1)}
         [] r.k = "nlb" -> {i \in I : i = 0 \/ s[i] \notin r.S}
CatEnds(rs, n, s, flags, I) ==
  IF n > Len(rs) \/ I = {} THEN I
  ELSE CatEnds(rs, n + 1, s, flags, Ends(rs[n], s, flags, I))
StarEnds(r, s, flags, done, frontier) ==
  IF frontier = {} THEN done
  ELSE LET new == Ends(r, s, flags, frontier) \ done
       IN  StarEnds(r, s, flags, done \cup new, new)

\* The match positions of r in s that start at position from or later.
MatchEnds(r, s, flags, from) == Ends(r, s, flags, from..Len(s))

\* RegExp.prototype.test of a regular-expression literal evaluated afresh
\* (lastIndex 0, discarded after the call).
Test(r, flags, s) == MatchEnds(r, s, flags, 0) # {}

(***************************************************************************)
(* The pattern registry (LANGUAGE_PATTERNS), one syntax tree per literal.  *)
(***************************************************************************)
\* /public\s+(class|static|void)|private\s+(class|static|void)|System\.out\.print
\*  |class\s+\w+\s*(extends|implements)?\s*\{|void\s+main\s*\(\s*String/
JavaPattern ==
  Or(<<Cat(<<Lit("public"), Sp, Words(<<"class", "static", "void">>)>>),
       Cat(<<Lit("private"), Sp, Words(<<"class", "static", "void">>)>>),
       Lit("System.out.print"),
       Cat(<<Lit("class"), Sp, Wp, Ss, Opt(Words(<<"extends", "implements">>)),
             Ss, Lit("{")>>),
       Cat(<<Lit("void"), Sp, Lit("main"), Ss, Lit("("), Ss, Lit("String")>>)>>)

\* /#include\s*<(iostream|vector|string|algorithm|map|set|queue|stack)>|std::
\*  |cout\s*<<|cin\s*>>|using\s+namespace\s+std|nullptr|::\w+\(|template\s*</
CppPattern ==
  Or(<<Cat(<<Lit("#include"), Ss, Lit("<"),
             Words(<<"iostream", "vector", "string", "algorithm", "map", "set",
                     "queue", "stack">>), Lit(">")>>),
       Lit("std::"),
       Cat(<<Lit("cout"), Ss, Lit("<<")>>),
       Cat(<<Lit("cin"), Ss, Lit(">>")>>),
       Cat(<<Lit("using"), Sp, Lit("namespace"), Sp, Lit("std")>>),
       Lit("nullptr"),
       Cat(<<Lit("::"), Wp, Lit("(")>>),
       Cat(<<Lit("template"), Ss, Lit("<")>>)>>)

\* /#include\s*<(stdio|stdlib|string|math|ctype|time)\.h>|printf\s*\(|scanf\s*\(
\*  |int\s+main\s*\(\s*(void)?\s*\)|malloc\s*\(|free\s*\(/
CPattern ==
  Or(<<Cat(<<Lit("#include"), Ss, Lit("<"),
             Words(<<"stdio", "stdlib", "string", "math", "ctype", "time">>),
             Lit(".h>")>>),
       Cat(<<Lit("printf"), Ss, Lit("(")>>),
       Cat(<<Lit("scanf"), Ss, Lit("(")>>),
       Cat(<<Lit("int"), Sp, Lit("main"), Ss, Lit("("), Ss, Opt(Lit("void")), Ss,
             Lit(")")>>),
       Cat(<<Lit("malloc"), Ss, Lit("(")>>),
       Cat(<<Lit("free"), Ss, Lit("(")>>)>>)

\* /:\s*(string|number|boolean|void|any|never)\s*[;,\)=\{]|interface\s+\w+\s*\{
\*  |type\s+\w+\s*=|<\w+>\s*\(|React\.(FC|Component)|:\s*\w+\[\]/
TypeScriptPattern ==
  Or(<<Cat(<<Lit(":"), Ss,
             Words(<<"string", "number", "boolean", "void", "any", "never">>), Ss,
             Cls({";", ",", ")", "=", "{"})>>),
       Cat(<<Lit("interface"), Sp, Wp, Ss, Lit("{")>>),
       Cat(<<Lit("type"), Sp, Wp, Ss, Lit("=")>>),
       Cat(<<Lit("<"), Wp, Lit(">"), Ss, Lit("(")>>),
       Cat(<<Lit("React."), Words(<<"FC", "Component">>)>>),
       Cat(<<Lit(":"), Ss, Wp, Lit("[]")>>)>>)

\* /^package\s+\w+|func\s+\w+\s*\([^)]*\)\s*\{|func\s+\(\w+\s+\*?\w+\)
\*  |fmt\.(Print|Scan)|:=\s*|import\s+\(/m
GoPattern ==
  Or(<<Cat(<<Bol, Lit("package"), Sp, Wp>>),
       Cat(<<Lit("func"), Sp, Wp, Ss, Lit("("), Star(NCls({")"})), Lit(")"), Ss,
             Lit("{")>>),
       Cat(<<Lit("func"), Sp, Lit("("), Wp, Sp, Opt(Lit("*")), Wp, Lit(")")>>),
       Cat(<<Lit("fmt."), Words(<<"Print", "Scan">>)>>),
       Cat(<<Lit(":="), Ss>>),
       Cat(<<Lit("import"), Sp, Lit("(")>>)>>)

\* /fn\s+\w+\s*\([^)]*\)\s*(->\s*\w+)?\s*\{|let\s+mut\s+|println!\s*\(|impl\s+\w+
\*  |pub\s+fn|use\s+std::|match\s+\w+\s*\{/
RustPattern ==
  Or(<<Cat(<<Lit("fn"), Sp, Wp, Ss, Lit("("), Star(NCls({")"})), Lit(")"), Ss,
             Opt(Cat(<<Lit("->"), Ss, Wp>>)), Ss, Lit("{")>>),
       Cat(<<Lit("let"), Sp, Lit("mut"), Sp>>),
       Cat(<<Lit("println!"), Ss, Lit("(")>>),
       Cat(<<Lit("impl"), Sp, Wp>>),
       Cat(<<Lit("pub"), Sp, Lit("fn")>>),
       Cat(<<Lit("use"), Sp, Lit("std::")>>),
       Cat(<<Lit("match"), Sp, Wp, Ss, Lit("{")>>)>>)

\* /^\s*def\s+\w+\s*\(|^\s*class\s+\w+\s*:|^\s*import\s+\w+|^\s*from\s+\w+\s+import
\*  |(?<![.\w])print\s*\(|if\s+__name__\s*==\s*["']__main__["']|^\s*elif\s+|:\s*$/m
PythonPattern ==
  Or(<<Cat(<<Bol, Ss, Lit("def"), Sp, Wp, Ss, Lit("(")>>),
       Cat(<<Bol, Ss, Lit("class"), Sp, Wp, Ss, Lit(":")>>),
       Cat(<<Bol, Ss, Lit("import"), Sp, Wp>>),
       Cat(<<Bol, Ss, Lit("from"), Sp, Wp, Sp, Lit("import")>>),
       Cat(<<NotBehind({"."} \cup WordChar), Lit("print"), Ss, Lit("(")>>),
       Cat(<<Lit("if"), Sp, Lit("__name__"), Ss, Lit("=="), Ss, Cls({"\"", "'"}),
             Lit("__main__"), Cls({"\"", "'"})>>),
       Cat(<<Bol, Ss, Lit("elif"), Sp>>),
       Cat(<<Lit(":"), Ss, Eol>>)>>)

\* /\bfunction\s+\w+\s*\(|\bconst\s+\w+\s*=|\blet\s+\w+\s*=
\*  |console\.(log|error|warn)\s*\(|=>\s*[\{\(]|module\.exports|require\s*\(['"]
\*  |document\.|window\./
JavaScriptPattern ==
  Or(<<Cat(<<WordB, Lit("function"), Sp, Wp, Ss, Lit("(")>>),
       Cat(<<WordB, Lit("const"), Sp, Wp, Ss, Lit("=")>>),
       Cat(<<WordB, Lit("let"), Sp, Wp, Ss, Lit("=")>>),
       Cat(<<Lit("console."), Words(<<"log", "error", "warn">>), Ss, Lit("(")>>),
       Cat(<<Lit("=>"), Ss, Cls({"{", "("})>>),
       Lit("module.exports"),
       Cat(<<Lit("require"), Ss, Lit("("), Cls({"'", "\""})>>),
       Lit("document."),
       Lit("window.")>>)

\* /^\s*def\s+\w+|^\s*end\s*$|puts\s+|require\s+['"]|class\s+\w+\s*<
\*  |attr_(accessor|reader|writer)|\.each\s+do/m
RubyPattern ==
  Or(<<Cat(<<Bol, Ss, Lit("def"), Sp, Wp>>),
       Cat(<<Bol, Ss, Lit("end"), Ss, Eol>>),
       Cat(<<Lit("puts"), Sp>>),
       Cat(<<Lit("require"), Sp, Cls({"'", "\""})>>),
       Cat(<<Lit("class"), Sp, Wp, Ss, Lit("<")>>),
       Cat(<<Lit("attr_"), Words(<<"accessor", "reader", "writer">>)>>),
       Cat(<<Lit(".each"), Sp, Lit("do")>>)>>)

\* /<\?php|\$\w+\s*=|echo\s+['"\$]|function\s+\w+\s*\(.*\)\s*\{|\$this->
\*  |namespace\s+\w+;/
PhpPattern ==
  Or(<<Lit("<?php"),
       Cat(<<Lit("$"), Wp, Ss, Lit("=")>>),
       Cat(<<Lit("echo"), Sp, Cls({"'", "\"", "$"})>>),
       Cat(<<Lit("function"), Sp, Wp, Ss, Lit("("), Star(Dot), Lit(")"), Ss,
             Lit("{")>>),
       Lit("$this->"),
       Cat(<<Lit("namespace"), Sp, Wp, Lit(";")>>)>>)

\* The language descriptors (name, monacoId, icon, color) of the registry.
JavaLang == [name |-> "Java", monacoId |-> "java", icon |-> "U+2615", color |-> "#B07219"]
CppLang == [name |-> "C++", monacoId |-> "cpp", icon |-> "U+26A1", color |-> "#F34B7D"]
CLang == [name |-> "C", monacoId |-> "c", icon |-> "U+1F527", color |-> "#555555"]
TypeScriptLang ==
  [name |-> "TypeScript", monacoId |-> "typescript", icon |-> "U+1F4D8", color |-> "#3178C6"]
GoLang == [name |-> "Go", monacoId |-> "go", icon |-> "U+1F439", color |-> "#00ADD8"]
RustLang == [name |-> "Rust", monacoId |-> "rust", icon |-> "U+1F980", color |-> "#DEA584"]
PythonLang ==
  [name |-> "Python", monacoId |-> "python", icon |-> "U+1F40D", color |-> "#3572A5"]
JavaScriptLang ==
  [name |-> "JavaScript", monacoId |-> "javascript", icon |-> "U+1F4DC", color |-> "#F7DF1E"]
RubyLang == [name |-> "Ruby", monacoId |-> "ruby", icon |-> "U+1F48E", color |-> "#CC342D"]
PhpLang == [name |-> "PHP", monacoId |-> "php", icon |-> "U+1F418", color |-> "#4F5D95"]
\* The descriptor both return statements of detectLanguage build.
PlainTextLang ==
  [name |-> "Plain Text", monacoId |-> "plaintext", icon |-> "U+1F4C4", color |-> "#6B7280"]

\* A fallback literal with another monacoId.
PlainTextOtherId ==
  [name |-> "Plain Text", monacoId |-> "text", icon |-> "U+1F4C4", color |-> "#6B7280"]
\* The object literal of the return statement of the prose short-circuit.
PlainTextShortCircuit ==
  [name |-> "Plain Text", monacoId |-> "plaintext", icon |-> "U+1F4C4", color |-> "#6B7280"]
\* The object literal of the return statement after the loop.
PlainTextFallback ==
  [name |-> "Plain Text", monacoId |-> "plaintext", icon |-> "U+1F4C4", color |-> "#6B7280"]

\* No descriptor: the value of a call that has not returned one.
NoLang == [name |-> "", monacoId |-> "", icon |-> "", color |-> ""]

\* The registry with the C rule placed before the C++ rule.
LanguagePatternsCFirst ==
  <<[pattern |-> JavaPattern, flags |-> NoFlags, lang |-> JavaLang],
    [pattern |-> CPattern, flags |-> NoFlags, lang |-> CLang],
    [pattern |-> CppPattern, flags |-> NoFlags, lang |-> CppLang],
    [pattern |-> TypeScriptPattern, flags |-> NoFlags, lang |-> TypeScriptLang],
    [pattern |-> GoPattern, flags |-> {"m"}, lang |-> GoLang],
    [pattern |-> RustPattern, flags |-> NoFlags, lang |-> RustLang],
    [pattern |-> PythonPattern, flags |-> {"m"}, lang |-> PythonLang],
    [pattern |-> JavaScriptPattern, flags |-> NoFlags, lang |-> JavaScriptLang],
    [pattern |-> RubyPattern, flags |-> {"m"}, lang |-> RubyLang],
    [pattern |-> PhpPattern, flags |-> NoFlags, lang |-> PhpLang]>>
\* The registry with the Ruby rule placed before the Python rule.
LanguagePatternsRubyFirst ==
  <<[pattern |-> JavaPattern, flags |-> NoFlags, lang |-> JavaLang],
    [pattern |-> CppPattern, flags |-> NoFlags, lang |-> CppLang],
    [pattern |-> CPattern, flags |-> NoFlags, lang |-> CLang],
    [pattern |-> TypeScriptPattern, flags |-> NoFlags, lang |-> TypeScriptLang],
    [pattern |-> GoPattern, flags |-> {"m"}, lang |-> GoLang],
    [pattern |-> RustPattern, flags |-> NoFlags, lang |-> RustLang],
    [pattern |-> RubyPattern, flags |-> {"m"}, lang |-> RubyLang],
    [pattern |-> PythonPattern, flags |-> {"m"}, lang |-> PythonLang],
    [pattern |-> JavaScriptPattern, flags |-> NoFlags, lang |-> JavaScriptLang],
    [pattern |-> PhpPattern, flags |-> NoFlags, lang |-> PhpLang]>>
\* The registry with the JavaScript rule placed before the TypeScript rule.
LanguagePatternsJsFirst ==
  <<[pattern |-> JavaPattern, flags |-> NoFlags, lang |-> JavaLang],
    [pattern |-> CppPattern, flags |-> NoFlags, lang |-> CppLang],
    [pattern |-> CPattern, flags |-> NoFlags, lang |-> CLang],
    [pattern |-> JavaScriptPattern, flags |-> NoFlags, lang |-> JavaScriptLang],
    [pattern |-> TypeScriptPattern, flags |-> NoFlags, lang |-> TypeScriptLang],
    [pattern |-> GoPattern, flags |-> {"m"}, lang |-> GoLang],
    [pattern |-> RustPattern, flags |-> NoFlags, lang |-> RustLang],
    [pattern |-> PythonPattern, flags |-> {"m"}, lang |-> PythonLang],
    [pattern |-> RubyPattern, flags |-> {"m"}, lang |-> RubyLang],
    [pattern |-> PhpPattern, flags |-> NoFlags, lang |-> PhpLang]>>

\* The registry as the module's array literal: pattern, flags and descriptor
\* of each rule, in source order.
LANGUAGE_PATTERNS ==
  <<[pattern |-> JavaPattern, flags |-> NoFlags, lang |-> JavaLang],
    [pattern |-> CppPattern, flags |-> NoFlags, lang |-> CppLang],
    [pattern |-> CPattern, flags |-> NoFlags, lang |-> CLang],
    [pattern |-> TypeScriptPattern, flags |-> NoFlags, lang |-> TypeScriptLang],
    [pattern |-> GoPattern, flags |-> {"m"}, lang |-> GoLang],
    [pattern |-> RustPattern, flags |-> NoFlags, lang |-> RustLang],
    [pattern |-> PythonPattern, flags |-> {"m"}, lang |-> PythonLang],
    [pattern |-> JavaScriptPattern, flags |-> NoFlags, lang |-> JavaScriptLang],
    [pattern |-> RubyPattern, flags |-> {"m"}, lang |-> RubyLang],
    [pattern |-> PhpPattern, flags |-> NoFlags, lang |-> PhpLang]>>


Least(S) == CHOOSE n \in S : \A m \in S : n <= m
Greatest(S) == CHOOSE n \in S : \A m \in S : n >= m

\* RegExpBuiltinExec on a regular expression object whose lastIndex is li:
\* whether a match was found, and the lastIndex the object is left with.
\* Without the g flag the search starts at 0 and lastIndex is not written;
\* with it the search starts at lastIndex, which is then set to the end of
\* the match (the longest one at the leftmost start), or to 0 on failure.
GlobalExec(r, flags, li, s, starts) ==
  IF starts = {} THEN [found |-> FALSE, lastIndex |-> 0]
  ELSE [found |-> TRUE,
        lastIndex |-> Greatest(Ends(r, s, flags, {Least(starts)}))]
RegExpBuiltinExec(r, flags, li, s) ==
  IF "g" \notin flags
  THEN [found |-> Test(r, flags, s), lastIndex |-> li]
  ELSE GlobalExec(r, flags, li, s, {i \in li..Len(s) : Ends(r, s, flags, {i}) # {}})

\* The registry's patterns written with the g flag.
RegExpTestGlobal(r, flags, li, s) == RegExpBuiltinExec(r, flags \cup {"g"}, li, s)
\* pattern.test(code) on a pattern object of the registry.
RegExpTest(r, flags, li, s) == RegExpBuiltinExec(r, flags, li, s)

(***************************************************************************)
(* The prose scorer, isPlainText.                                          *)
(***************************************************************************)
Letter == LowerCase \cup UpperCase

\* The declaration rule without the name after the keyword.
ShortKeywordOnlyRe ==
  Cat(<<Bol, Words(<<"def", "function", "class", "public", "private">>)>>)
\* /^(def|function|class|public|private)\s+\w+/
ShortDeclRe ==
  Cat(<<Bol, Words(<<"def", "function", "class", "public", "private">>), Sp, Wp>>)
\* /[{};]\s*$/
ShortTerminatorRe == Cat(<<Cls({"{", "}", ";"}), Ss, Eol>>)

\* The sentence rule with any characters in the middle: /^[A-Z].*[.!?]$/
SentenceAnyRe == Cat(<<Bol, Cls(UpperCase), Star(Dot), Cls({".", "!", "?"}), Eol>>)
\* /^[A-Z][a-zA-Z\s,'"]+[.!?]$/
SentenceRe ==
  Cat(<<Bol, Cls(UpperCase), Plus(Cls(Letter \cup WhiteSpace \cup {",", "'", "\""})),
        Cls({".", "!", "?"}), Eol>>)
\* /[=\[\]{}();]/
StructureRe == Cls({"=", "[", "]", "{", "}", "(", ")", ";"})
\* /\b(your|you're|what's|here's|that's|it's|how to|this is|problem|issue)\b/i
PhraseRe ==
  Cat(<<WordB,
        Words(<<"your", "you're", "what's", "here's", "that's", "it's", "how to",
                "this is", "problem", "issue">>),
        WordB>>)
\* /^[•\-\*✅❌]\s+/
BulletRe == Cat(<<Bol, Cls({Bullet, "-", "*", CheckMark, CrossMark}), Sp>>)
\* /^[A-Z][A-Z\s]+$/
AllCapsRe ==
  Cat(<<Bol, Cls(UpperCase), Plus(Cls(UpperCase \cup WhiteSpace)), Eol>>)
\* /^[a-zA-Z\s]+$/
WordOnlyRe == Cat(<<Bol, Plus(Cls(Letter \cup WhiteSpace)), Eol>>)
\* /^(if|for|while|def|class|return|import|from)\s/
KeywordLeadRe ==
  Cat(<<Bol,
        Words(<<"if", "for", "while", "def", "class", "return", "import", "from">>),
        Cls(WhiteSpace)>>)
\* trimmed.length < 30
ShortLineLimit == 30

\* /^\s*(def|function|class|public|private|void|int|bool)\s+\w+/
DeclRe ==
  Cat(<<Bol, Ss,
        Words(<<"def", "function", "class", "public", "private", "void", "int",
                "bool">>),
        Sp, Wp>>)
\* /^\s*(if|for|while|elif|else|switch|match|try|catch|finally|with|func|fn)\b/
ControlRe ==
  Cat(<<Bol, Ss,
        Words(<<"if", "for", "while", "elif", "else", "switch", "match", "try",
                "catch", "finally", "with", "func", "fn">>),
        WordB>>)
\* /^\s*(import|from\s+\w+\s+import|#include|require|use|package)\s/
DirectiveRe ==
  Cat(<<Bol, Ss,
        Or(<<Lit("import"), Cat(<<Lit("from"), Sp, Wp, Sp, Lit("import")>>),
             Lit("#include"), Lit("require"), Lit("use"), Lit("package")>>),
        Cls(WhiteSpace)>>)
\* /[{};:]\s*$/
TerminatorRe == Cat(<<Cls({"{", "}", ";", ":"}), Ss, Eol>>)
\* /=/
EqualsRe == Lit("=")
\* /[a-z_]\w*\s*(=|\+=|-=)/i
AssignRe ==
  Cat(<<Cls(LowerCase \cup {"_"}), Ws, Ss, Or(<<Lit("="), Lit("+="), Lit("-=")>>)>>)

\* "Sentence-like (starts capital, ends punctuation)"
SentenceLike(trimmed) == Test(SentenceRe, NoFlags, trimmed)
\* "Short word-only lines (not code keywords)"
ShortWordOnly(trimmed) ==
  /\ Len(trimmed) < ShortLineLimit
  /\ Test(WordOnlyRe, NoFlags, trimmed)
  /\ ~Test(KeywordLeadRe, NoFlags, trimmed)

\* const isProse = ... (on the trimmed line)
isProse(trimmed) ==
  \/ SentenceLike(trimmed)
  \/ ~Test(StructureRe, NoFlags, trimmed) /\ Test(PhraseRe, {"i"}, trimmed)
  \/ Test(BulletRe, NoFlags, trimmed)
  \/ Test(AllCapsRe, NoFlags, trimmed)
  \/ ShortWordOnly(trimmed)

\* const isCode = ... (on the trimmed line)
isCode(trimmed) ==
  \/ Test(DeclRe, NoFlags, trimmed)
  \/ Test(ControlRe, NoFlags, trimmed)
  \/ Test(DirectiveRe, NoFlags, trimmed)
  \/ Test(TerminatorRe, NoFlags, trimmed)
  \/ Test(EqualsRe, NoFlags, trimmed) /\ Test(AssignRe, {"i"}, trimmed)

\* The loop body counting a line with both signals as prose.
TallyProseWins(cnt, p, c) ==
  IF p THEN [cnt EXCEPT !.proseLines = @ + 1]
  ELSE IF c THEN [cnt EXCEPT !.codeLines = @ + 1]
  ELSE cnt
\* The body of the for loop: one line, with its two signals, is counted as
\* prose, as code or not at all.
Tally(cnt, p, c) ==
  IF p /\ ~c THEN [cnt EXCEPT !.proseLines = @ + 1]
  ELSE IF c /\ ~p THEN [cnt EXCEPT !.codeLines = @ + 1]
  ELSE cnt
TallyLine(cnt, trimmed) == Tally(cnt, isProse(trimmed), isCode(trimmed))

\* The for loop over the lines, from line n on: the two counters at its end.
RECURSIVE CountLines(_, _, _)
CountLines(lines, n, cnt) ==
  IF n > Len(lines) THEN cnt
  ELSE CountLines(lines, n + 1, TallyLine(cnt, trim(lines[n])))

\* The comparison with 0.5 in place of 0.4.
RatioAboveHalf(proseLines, total) == 10 * proseLines > 5 * total
\* The comparison with >= in place of >.
RatioAtLeast(proseLines, total) == 10 * proseLines >= 4 * total
\* proseLines / total > 0.4 with total > 0, as a comparison of rationals
\* (0.4 = 4/10).  The quotient of two line counts is never close enough to
\* 0.4 for the rounding of the double division to change the comparison.
RatioAbove(proseLines, total) == 10 * proseLines > 4 * total

\* code.match(/[{};]/g): the array of all matches, or null when there is none.
MatchAllStructural(s) ==
  LET hits == {i \in 1..Len(s) : s[i] \in {"{", "}", ";"}}
  IN  IF hits = {} THEN [isNull |-> TRUE, length |-> 0]
      ELSE [isNull |-> FALSE, length |-> Cardinality(hits)]
\* x?.length < 3: of null, ?.length is undefined and undefined < 3 is false.
FewStructural(m) == IF m.isNull THEN FALSE ELSE m.length < 3

\* The test with === 1 in place of < 2.
ShortInputExactlyOne(lines) == Len(lines) = 1
\* lines.length < 2
ShortInput(lines) == Len(lines) < 2
\* lines.length > 3
ManyLines(lines) == Len(lines) > 3

\* The first branch of isPlainText, on text = code.trim().
ShortVerdict(text) ==
  ~Test(ShortDeclRe, NoFlags, text) /\ ~Test(ShortTerminatorRe, NoFlags, text)

\* The two return statements after the loop, with the counters cnt.
LongVerdict(cnt, lines, s) ==
  IF cnt.proseLines + cnt.codeLines > 0
  THEN [ret |-> RatioAbove(cnt.proseLines, cnt.proseLines + cnt.codeLines),
        regime |-> "ratio", nLines |-> Len(lines),
        proseLines |-> cnt.proseLines, codeLines |-> cnt.codeLines]
  ELSE [ret |-> ManyLines(lines) /\ FewStructural(MatchAllStructural(s)),
        regime |-> "neutral", nLines |-> Len(lines),
        proseLines |-> cnt.proseLines, codeLines |-> cnt.codeLines]

\* The body of isPlainText once lines is computed.
ScoreLines(lines, s) ==
  IF ShortInput(lines)
  THEN [ret |-> ShortVerdict(trim(s)), regime |-> "short", nLines |-> Len(lines),
        proseLines |-> 0, codeLines |-> 0]
  ELSE LongVerdict(CountLines(lines, 1, [proseLines |-> 0, codeLines |-> 0]), lines, s)

\* isPlainText(code): the value returned (ret) with the branch taken (regime)
\* and the locals lines.length, proseLines and codeLines at the return.
isPlainText(s) == ScoreLines(filter(split(trim(s))), s)

(***************************************************************************)
(* The orchestrator, detectLanguage.                                       *)
(***************************************************************************)
RuleNames == {LANGUAGE_PATTERNS[n].lang.name : n \in 1..Len(LANGUAGE_PATTERNS)}
\* The rule object of the registry whose descriptor carries the name.
Rule(name) ==
  LANGUAGE_PATTERNS[CHOOSE n \in 1..Len(LANGUAGE_PATTERNS) :
                      LANGUAGE_PATTERNS[n].lang.name = name]

\* The lastIndex values after the pattern of rule name was tested with
\* outcome t.
Tested(li, name, t) == [li EXCEPT ![name] = t.lastIndex]

\* The loop that keeps the last rule that matches instead of returning at the
\* first.
RECURSIVE WalkKeepLast(_, _, _, _, _)
KeepLastStep(reg, n, s, li, best, rule, t) ==
  WalkKeepLast(reg, n + 1, s, Tested(li, reg[n], t),
               IF t.found THEN [best EXCEPT !.lang = rule.lang, !.matched = n]
               ELSE best)
WalkKeepLast(reg, n, s, li, best) ==
  IF n > Len(reg) THEN [best EXCEPT !.tested = Len(reg), !.lastIndex = li]
  ELSE KeepLastStep(reg, n, s, li, best, Rule(reg[n]),
                    RegExpTest(Rule(reg[n]).pattern, Rule(reg[n]).flags, li[reg[n]], s))
WalkRegistryLastMatch(reg, n, s, li) ==
  WalkKeepLast(reg, n, s, li,
               [lang |-> PlainTextLang, matched |-> 0, tested |-> 0, lastIndex |-> li])

\* The loop without the return statement that follows it.
RECURSIVE WalkRegistryNoFallback(_, _, _, _)
NoFallbackStep(reg, n, s, li, rule, t) ==
  IF t.found
  THEN [lang |-> rule.lang, matched |-> n, tested |-> n,
        lastIndex |-> Tested(li, reg[n], t)]
  ELSE WalkRegistryNoFallback(reg, n + 1, s, Tested(li, reg[n], t))
WalkRegistryNoFallback(reg, n, s, li) ==
  IF n > Len(reg)
  THEN [lang |-> NoLang, matched |-> 0, tested |-> Len(reg), lastIndex |-> li]
  ELSE NoFallbackStep(reg, n, s, li, Rule(reg[n]),
                      RegExpTest(Rule(reg[n]).pattern, Rule(reg[n]).flags, li[reg[n]], s))

\* for (const { pattern, lang } of LANGUAGE_PATTERNS) if (pattern.test(code))
\* return lang;  followed by the fallback return.  reg is the array as it
\* stands (its rules by name, in order), li the lastIndex of every pattern;
\* the result carries the descriptor returned, the position of the rule that
\* matched (0 for the fallback), the number of patterns tested and the
\* lastIndex values the tests leave behind.
RECURSIVE WalkRegistry(_, _, _, _)
\* One iteration: rule is the n-th rule and t the outcome of its test.
WalkStep(reg, n, s, li, rule, t) ==
  IF t.found
  THEN [lang |-> rule.lang, matched |-> n, tested |-> n,
        lastIndex |-> Tested(li, reg[n], t)]
  ELSE WalkRegistry(reg, n + 1, s, Tested(li, reg[n], t))
WalkRegistry(reg, n, s, li) ==
  IF n > Len(reg)
  THEN [lang |-> PlainTextFallback, matched |-> 0, tested |-> Len(reg), lastIndex |-> li]
  ELSE WalkStep(reg, n, s, li, Rule(reg[n]),
                RegExpTest(Rule(reg[n]).pattern, Rule(reg[n]).flags, li[reg[n]], s))

\* The result of a call: what the walk (or the early return) yields, with the
\* scorer's verdict and locals beside it.
Result(w, plain) ==
  [lang |-> w.lang, matched |-> w.matched, tested |-> w.tested,
   lastIndex |-> w.lastIndex, scorer |-> plain]

\* detectLanguage with the registry consulted before the scorer.
PatternsFirst(w, plain) ==
  IF w.matched > 0 THEN Result(w, plain)
  ELSE Result([w EXCEPT !.lang = PlainTextLang], plain)
detectLanguagePatternsFirst(s, reg, li) ==
  PatternsFirst(WalkRegistry(reg, 1, s, li), isPlainText(s))

\* The body of detectLanguage once isPlainText(code) is evaluated.
AfterScorer(plain, s, reg, li) ==
  IF plain.ret
  THEN Result([lang |-> PlainTextShortCircuit, matched |-> 0, tested |-> 0, lastIndex |-> li],
              plain)
  ELSE Result(WalkRegistry(reg, 1, s, li), plain)

\* detectLanguage(code), with the scorer's verdict and locals kept beside the
\* value returned.
detectLanguage(s, reg, li) == AfterScorer(isPlainText(s), s, reg, li)

(***************************************************************************)
(* Input texts.                                                            *)
(***************************************************************************)
\* lines.join('\n')
RECURSIVE Join(_)
Join(ls) ==
  IF ls = <<>> THEN <<>>
  ELSE IF Len(ls) = 1 THEN ls[1]
  ELSE ls[1] \o <<"\n">> \o Join(Tail(ls))

RECURSIVE SeqsUpTo(_, _)
\* The sequences of at most n elements of S.
SeqsUpTo(S, n) ==
  IF n = 0 THEN {<<>>}
  ELSE LET shorter == SeqsUpTo(S, n - 1)
       IN  shorter \cup {Append(q, x) : q \in {r \in shorter : Len(r) = n - 1}, x \in S}

MaxLines == 5

ProseLine == Chars("It is a class.")
CppLine == Chars("std::cout << 1;")
CLine == Chars("printf(1);")
NeutralLine == Chars("    return 1")
HalfNeutralLine == Chars("g(a;b)")
TokenLine == Chars("Use printf( here")

\* Lines that carry the signature of a language, one of prose, and the
\* special cases of the short-input rules.
LinePool ==
  {ProseLine, CppLine, CLine, NeutralLine, HalfNeutralLine, TokenLine}
  \cup {Chars(str) : str \in
         {"public class A {", "let x: number = 1;", "x := 1", "let mut x = 1;",
          "def foo():", "const x = 1;", "puts 1", "end", "$x = 1;",
          "System.out.println(1);", "function foo() { return 1; }",
          "This is your problem", "- item", "NOTES", "hello world",
          "class", "def 1", "classy code", "private  _x", "x;", "a }", "if (x)",
          "", "  ", "\t"}}

\* Texts of prose, code and neutral lines in every order.
RatioTexts == {Join(q) : q \in SeqsUpTo({ProseLine, CppLine, NeutralLine}, MaxLines)}
\* Texts of neutral lines with and without structural symbols.
NeutralTexts == {Join(q) : q \in SeqsUpTo({NeutralLine, HalfNeutralLine}, MaxLines)}
\* Every line of the pool alone, and every two of them.
PairTexts == LinePool \cup {Join(<<a, b>>) : a \in LinePool, b \in LinePool}
\* The fourth concrete scenario of the specification.
CppScenario == Chars("#include <iostream>\nint main(){ std::cout<<1; }")
\* The first concrete scenario of the specification.
PythonScenario == Chars("def foo():\n    return 1")
\* The concrete scenarios of the specification.
ScenarioTexts ==
  {Chars(str) : str \in
    {"def foo():\n    return 1",
     "function foo() { return 1; }",
     "This is a normal sentence about the weather today.",
     "#include <iostream>\nint main(){ std::cout<<1; }",
     "func main() {\n fmt.Println(\"hi\")\n}",
     "",
     "// Paste your code here\nfunction example() {\n  return \"Hello World\";\n}"}}
\* The keywords of the short word-only rule, alone and with words after them.
Keywords ==
  {Chars(str) : str \in {"if", "for", "while", "def", "class", "return", "import", "from"}}
KeywordLines == Keywords \cup {Chars("return value"), Chars("  import  "), Chars("forty")}
KeywordTexts ==
  {Join(<<k, l>>) : k \in KeywordLines, l \in {CppLine, ProseLine}}
  \cup {Join(<<k, ProseLine, CppLine, NeutralLine>>) : k \in KeywordLines}
\* Lines from a capital letter to a final . ! or ?
SentenceLines ==
  {Chars(str) : str \in
    {"It is 5.", "Call f(x).", "Note: done!", "A.", "Is it so?", "Hello, \"you\"!",
     "Foo.bar()."}}
SentenceTexts == {Join(<<l, CppLine, CppLine>>) : l \in SentenceLines}
\* The Ruby markers of the README: a def line, body lines, a closing end.
RubyDefLines == {Chars("def foo"), Chars("def foo(x)")}
RubyBodyLines == {Chars("  puts 1"), Chars("  puts x"), Chars("  x = 1")}
RubyTexts ==
  {Join(<<d>> \o body \o <<Chars("end")>>) :
     d \in RubyDefLines, body \in SeqsUpTo(RubyBodyLines, 2)}
Texts ==
  RatioTexts \cup NeutralTexts \cup PairTexts \cup ScenarioTexts
  \cup KeywordTexts \cup SentenceTexts \cup RubyTexts

\* The single lines and the scenarios: the texts of the call histories.
HistTexts == LinePool \cup ScenarioTexts

(***************************************************************************)
(* The callers of detectLanguage: a sequence of calls on arbitrary texts.  *)
(*   code         the text handed to the next (idle) or last (done) call   *)
(*   registry     the array LANGUAGE_PATTERNS, its rules by name           *)
(*   lastIndex    the lastIndex of the pattern object of every rule        *)
(*   lang         the descriptor the last call returned                    *)
(*   scorer       what isPlainText returned in that call, and its locals   *)
(*   matchedRule  the position of the rule that matched (0: none)          *)
(*   testedRules  the number of patterns the call tested                   *)
(*   memo         an earlier call kept for comparison: its text and result *)
(***************************************************************************)
VARIABLES code, pc, registry, lastIndex, scorer, lang, matchedRule, testedRules, memo

(***************************************************************************)
(* The component CodeAnalysis, the caller of detectLanguage in the page.   *)
(* code is its state of that name (the editor text); the others:           *)
(*   detectedLanguage, loading, result, error, isDirty,                    *)
(*   showLanguageAnimation   the state of the same names                   *)
(*   ranWith      the dependencies the effects last ran with               *)
(*   timers       the pending timers of the auto-analyze effect            *)
(*   cleanup      the timer the cleanup of that effect clears (0: none)    *)
(*   animations   the times left of the pending animation timers           *)
(*   requests     the calls of analyzeCode that have not settled           *)
(*   reading      the files being read by a FileReader                     *)
(*   started      the number of calls of analyzeCode so far                *)
(*   sinceChange  the time since code last changed, up to DebounceMs       *)
(*   autoSent     the number of requests the timers have started since the *)
(*                last editor change or file load                          *)
(***************************************************************************)
VARIABLES detectedLanguage, loading, result, error, isDirty, showLanguageAnimation,
          ranWith, timers, cleanup, animations, requests, reading, started,
          sinceChange, autoSent

callVars == <<pc, registry, scorer, lang, matchedRule, testedRules, memo>>
uiVars ==
  <<detectedLanguage, loading, result, error, isDirty, showLanguageAnimation,
    ranWith, timers, cleanup, animations, requests, reading, started, sinceChange,
    autoSent>>
vars == <<code, lastIndex, callVars, uiVars>>

\* No call has returned yet.
NoScore == [ret |-> FALSE, regime |-> "", nLines |-> 0, proseLines |-> 0, codeLines |-> 0]
NoMemo == [set |-> FALSE, text |-> <<>>, lang |-> NoLang, between |-> FALSE]

\* null, as the value of error
Null == "null"
\* null, as the value of result
NoResult == [isNull |-> TRUE, text |-> <<>>, language |-> "", id |-> 0]
\* The effects have not run yet.
NoDeps == [mounted |-> FALSE, code |-> <<>>, isDirty |-> FALSE, name |-> ""]

\* The state of the component apart from code and detectedLanguage, as
\* useState initialises it; nothing is pending.
InitialState ==
  /\ loading = FALSE
  /\ result = NoResult
  /\ error = Null
  /\ isDirty = FALSE
  /\ showLanguageAnimation = FALSE
  /\ ranWith = NoDeps
  /\ timers = {}
  /\ cleanup = 0
  /\ animations = {}
  /\ requests = {}
  /\ reading = {}
  /\ started = 0
  /\ sinceChange = 0
  /\ autoSent = 0
\* The callers below call detectLanguage directly: no component is rendered.
NotRendered == detectedLanguage = NoLang /\ InitialState

InitWith(texts) ==
  /\ code \in texts
  /\ pc = "idle"
  /\ registry = [n \in 1..Len(LANGUAGE_PATTERNS) |-> LANGUAGE_PATTERNS[n].lang.name]
  /\ lastIndex = [name \in RuleNames |-> 0]
  /\ scorer = NoScore
  /\ lang = NoLang
  /\ matchedRule = 0
  /\ testedRules = 0
  /\ memo = NoMemo
  /\ NotRendered

Init == InitWith(Texts)

\* The call returns r: the descriptor and what the call left behind.
Returns(r) ==
  /\ lang' = r.lang
  /\ scorer' = r.scorer
  /\ matchedRule' = r.matched
  /\ testedRules' = r.tested
  /\ lastIndex' = r.lastIndex

\* A caller calls detectLanguage(code) and the call returns.
DetectLanguage ==
  /\ pc = "idle"
  /\ Returns(detectLanguage(code, registry, lastIndex))
  /\ pc' = "done"
  /\ memo' = IF memo.set /\ memo.text # code
             THEN [memo EXCEPT !.between = TRUE] ELSE memo
  /\ UNCHANGED <<code, registry, uiVars>>

\* The caller has another text to classify.
NewText(t) ==
  /\ pc = "done"
  /\ code' = t
  /\ pc' = "idle"
  /\ scorer' = NoScore
  /\ lang' = NoLang
  /\ matchedRule' = 0
  /\ testedRules' = 0
  /\ UNCHANGED <<registry, lastIndex, memo, uiVars>>

\* The caller keeps the call that has just returned, to compare a later call
\* with it.
Remember ==
  /\ pc = "done"
  /\ ~memo.set
  /\ memo' = [set |-> TRUE, text |-> code, lang |-> lang, between |-> FALSE]
  /\ UNCHANGED <<code, pc, registry, lastIndex, scorer, lang, matchedRule, testedRules,
                 uiVars>>

Next ==
  \/ DetectLanguage
  \/ \E t \in Texts : NewText(t)

Spec == Init /\ [][Next]_vars

\* Call histories over HistTexts, with one earlier call remembered.
InitHist == InitWith(HistTexts)

NextHist ==
  \/ DetectLanguage
  \/ Remember
  \/ \E t \in HistTexts : NewText(t)

SpecHist == InitHist /\ [][NextHist]_vars

(***************************************************************************)
(* The component CodeAnalysis.  A handler's state updates are committed    *)
(* together when the handler returns; the effects of a commit run before   *)
(* the next event, timer or response is handled.                           *)
(***************************************************************************)
\* The initial editor text of useState.
InitialCode ==
  Chars("// Paste your code here\nfunction example() {\n  return \"Hello World\";\n}")
\* setTimeout(() => handleAnalyze(code), 2000)
DebounceMs == 2000
\* setTimeout(() => setShowLanguageAnimation(false), 1500)
AnimationMs == 1500
\* code.length < 15
MinAutoLength == 15

MaxRequests == 2
MaxReading == 1
\* The steps in which time advances.
TimeSteps == {1000}
\* A text of white space long enough for the auto-analyze effect, and a
\* shorter one.
BlankText == [n \in 1..MinAutoLength |-> " "]
BlankFile == Chars("  ")
\* The texts typed into the editor.
UITexts == {InitialCode, PythonScenario, BlankText}
\* The texts of the files the user uploads.
FileTexts == {PythonScenario, BlankFile}
\* The messages of the errors analyzeCode rejects with: that of a failed
\* fetch and an empty one (its own is "Analysis failed").
FailureMessages == {"Failed to fetch", ""}

\* detectLanguage(t) for the texts of the editor: the registry is never
\* written and none of its patterns has the g flag, so that every call on a
\* text starts from the same registry and the same lastIndex values.
DetectedOf ==
  [t \in UITexts \cup FileTexts |->
     detectLanguage(t, [n \in 1..Len(LANGUAGE_PATTERNS) |-> LANGUAGE_PATTERNS[n].lang.name],
                    [name \in RuleNames |-> 0])]

Min(a, b) == IF a < b THEN a ELSE b
Max(a, b) == IF a > b THEN a ELSE b

\* The rendered component: detectedLanguage is detectLanguage of the initial
\* text, the effects of the first commit are pending.
InitUI ==
  /\ code = InitialCode
  /\ pc = "idle"
  /\ registry = [n \in 1..Len(LANGUAGE_PATTERNS) |-> LANGUAGE_PATTERNS[n].lang.name]
  /\ lastIndex = [name \in RuleNames |-> 0]
  /\ scorer = NoScore
  /\ lang = NoLang
  /\ matchedRule = 0
  /\ testedRules = 0
  /\ memo = NoMemo
  /\ detectedLanguage = DetectedOf[InitialCode].lang
  /\ InitialState

\* The dependencies of the two effects have changed since they last ran.
EffectsPending ==
  \/ ~ranWith.mounted
  \/ ranWith.code # code
  \/ ranWith.isDirty # isDirty
  \/ ranWith.name # detectedLanguage.name
\* [code, detectedLanguage.name] has changed since the effects last ran.
DetectDepsChanged ==
  ~ranWith.mounted \/ ranWith.code # code \/ ranWith.name # detectedLanguage.name

\* A handleAnalyze without the test of codeToAnalyze.trim().
handleAnalyzeAnyText(codeToAnalyze, name, via) ==
  /\ loading' = TRUE
  /\ error' = Null
  /\ started' = started + 1
  /\ requests' = requests \cup
       {[id |-> started + 1, text |-> codeToAnalyze, name |-> name, via |-> via]}
\* handleAnalyze(codeToAnalyze), as created by the render in which
\* detectedLanguage.name was name; via tells who called it.  The call runs up
\* to the await: the request is in flight.
handleAnalyze(codeToAnalyze, name, via) ==
  IF trim(codeToAnalyze) = <<>>
  THEN UNCHANGED <<loading, error, requests, started>>
  ELSE /\ loading' = TRUE
       /\ error' = Null
       /\ started' = started + 1
       /\ requests' = requests \cup
            {[id |-> started + 1, text |-> codeToAnalyze, name |-> name, via |-> via]}
\* The call sends no request, or one more request may be sent.
MaySend(codeToAnalyze) == trim(codeToAnalyze) = <<>> \/ started < MaxRequests

\* An effect that never clears its timer.
NoCleanup(ts, id) == ts
\* return () => clearTimeout(timer), run before the effect runs again.
ClearTimeout(ts, id) == {t \in ts : t.id # id}
\* The id setTimeout gives the new timer: one that no pending timer has.
NewTimerId(ts) == Least((1..(Cardinality(ts) + 1)) \ {t.id : t \in ts})

\* An auto-analyze effect that sets its timer whether isDirty or not.
AutoAnalyzeAlways(ts) ==
  IF Len(code) < MinAutoLength
  THEN timers' = ts /\ cleanup' = 0
  ELSE /\ timers' = ts \cup {[id |-> NewTimerId(ts), text |-> code,
                               name |-> detectedLanguage.name, left |-> DebounceMs]}
       /\ cleanup' = NewTimerId(ts)
\* The auto-analyze effect, after its cleanup left the timers ts pending.
AutoAnalyze(ts) ==
  IF ~isDirty \/ Len(code) < MinAutoLength
  THEN timers' = ts /\ cleanup' = 0
  ELSE /\ timers' = ts \cup {[id |-> NewTimerId(ts), text |-> code,
                               name |-> detectedLanguage.name, left |-> DebounceMs]}
       /\ cleanup' = NewTimerId(ts)
\* An auto-detect effect that leaves detectedLanguage as it is.
AutoDetectNothing(r) ==
  /\ lastIndex' = r.lastIndex
  /\ UNCHANGED <<detectedLanguage, showLanguageAnimation, animations>>
\* The auto-detect effect, r being what detectLanguage(code) returns.
AutoDetect(r) ==
  /\ lastIndex' = r.lastIndex
  /\ IF r.lang.name # detectedLanguage.name
     THEN /\ detectedLanguage' = r.lang
          /\ showLanguageAnimation' = TRUE
          /\ animations' = animations \cup {AnimationMs}
     ELSE UNCHANGED <<detectedLanguage, showLanguageAnimation, animations>>

\* The effects of the last commit run: the auto-analyze effect after its
\* cleanup, then the auto-detect effect if code or the name has changed.
RunEffects ==
  /\ EffectsPending
  /\ AutoAnalyze(ClearTimeout(timers, cleanup))
  /\ IF DetectDepsChanged
     THEN AutoDetect(DetectedOf[code])
     ELSE UNCHANGED <<lastIndex, detectedLanguage, showLanguageAnimation, animations>>
  /\ ranWith' = [mounted |-> TRUE, code |-> code, isDirty |-> isDirty,
                 name |-> detectedLanguage.name]
  /\ UNCHANGED <<code, callVars, loading, result, error, isDirty, requests, reading,
                 started, sinceChange, autoSent>>

\* handleEditorChange(value): the user has edited the text to t.
HandleEditorChange(t) ==
  /\ ~EffectsPending
  /\ code' = t
  /\ isDirty' = TRUE
  /\ autoSent' = 0
  /\ sinceChange' = IF t = code THEN sinceChange ELSE 0
  /\ UNCHANGED <<lastIndex, callVars, detectedLanguage, loading, result, error,
                 showLanguageAnimation, ranWith, timers, cleanup, animations, requests,
                 reading, started>>

\* The Analyze button, enabled while loading is false: handleAnalyze(code).
AnalyzeClick ==
  /\ ~EffectsPending
  /\ ~loading
  /\ MaySend(code)
  /\ handleAnalyze(code, detectedLanguage.name, "button")
  /\ UNCHANGED <<code, lastIndex, callVars, detectedLanguage, result, isDirty,
                 showLanguageAnimation, ranWith, timers, cleanup, animations, reading,
                 sinceChange, autoSent>>

\* The timer t of the auto-analyze effect is due: handleAnalyze(code) of the
\* render whose effect set it.
TimerFires(t) ==
  /\ ~EffectsPending
  /\ t \in timers
  /\ t.left = 0
  /\ MaySend(t.text)
  /\ timers' = timers \ {t}
  /\ handleAnalyze(t.text, t.name, "timer")
  /\ autoSent' = IF trim(t.text) = <<>> THEN autoSent ELSE autoSent + 1
  /\ UNCHANGED <<code, lastIndex, callVars, detectedLanguage, result, isDirty,
                 showLanguageAnimation, ranWith, cleanup, animations, reading,
                 sinceChange>>

\* handleFileUpload: the user has chosen a file with the text t; the reader
\* is given an onload function of the current render.
HandleFileUpload(t) ==
  /\ ~EffectsPending
  /\ Cardinality(reading) < MaxReading
  /\ reading' = reading \cup {[text |-> t, name |-> detectedLanguage.name]}
  /\ UNCHANGED <<code, lastIndex, callVars, detectedLanguage, loading, result, error,
                 isDirty, showLanguageAnimation, ranWith, timers, cleanup, animations,
                 requests, started, sinceChange, autoSent>>

\* reader.onload: setCode(text), setIsDirty(true), handleAnalyze(text).
ReaderLoads(u) ==
  /\ ~EffectsPending
  /\ u \in reading
  /\ MaySend(u.text)
  /\ reading' = reading \ {u}
  /\ code' = u.text
  /\ isDirty' = TRUE
  /\ autoSent' = 0
  /\ sinceChange' = IF u.text = code THEN sinceChange ELSE 0
  /\ handleAnalyze(u.text, u.name, "upload")
  /\ UNCHANGED <<lastIndex, callVars, detectedLanguage, result, showLanguageAnimation,
                 ranWith, timers, cleanup, animations>>

\* analyzeCode resolves for the request r: the try block continues after the
\* await, then the finally block.
Resolves(r) ==
  /\ ~EffectsPending
  /\ r \in requests
  /\ requests' = requests \ {r}
  /\ result' = [isNull |-> FALSE, text |-> r.text, language |-> r.name, id |-> r.id]
  /\ isDirty' = FALSE
  /\ loading' = FALSE
  /\ UNCHANGED <<code, lastIndex, callVars, detectedLanguage, error,
                 showLanguageAnimation, ranWith, timers, cleanup, animations, reading,
                 started, sinceChange, autoSent>>

\* A catch block that stores the message as it is, without the fallback.
RejectsRawMessage(r, msg) ==
  /\ ~EffectsPending
  /\ r \in requests
  /\ requests' = requests \ {r}
  /\ error' = msg
  /\ loading' = FALSE
  /\ UNCHANGED <<code, lastIndex, callVars, detectedLanguage, result, isDirty,
                 showLanguageAnimation, ranWith, timers, cleanup, animations, reading,
                 started, sinceChange, autoSent>>
\* analyzeCode rejects for the request r with an error of message msg: the
\* catch block, then the finally block.
Rejects(r, msg) ==
  /\ ~EffectsPending
  /\ r \in requests
  /\ requests' = requests \ {r}
  /\ error' = IF msg = "" THEN "Analysis failed" ELSE msg
  /\ loading' = FALSE
  /\ UNCHANGED <<code, lastIndex, callVars, detectedLanguage, result, isDirty,
                 showLanguageAnimation, ranWith, timers, cleanup, animations, reading,
                 started, sinceChange, autoSent>>

\* The timer of an animation is due: setShowLanguageAnimation(false).
AnimationEnds ==
  /\ ~EffectsPending
  /\ 0 \in animations
  /\ animations' = animations \ {0}
  /\ showLanguageAnimation' = FALSE
  /\ UNCHANGED <<code, lastIndex, callVars, detectedLanguage, loading, result, error,
                 isDirty, ranWith, timers, cleanup, requests, reading, started,
                 sinceChange, autoSent>>

\* d milliseconds pass; a timer that is due runs first.
Tick(d) ==
  /\ ~EffectsPending
  /\ 0 \notin animations
  /\ \A t \in timers : t.left > 0
  /\ timers' = {[t EXCEPT !.left = Max(@ - d, 0)] : t \in timers}
  /\ animations' = {Max(a - d, 0) : a \in animations}
  /\ sinceChange' = Min(sinceChange + d, DebounceMs)
  /\ UNCHANGED <<code, lastIndex, callVars, detectedLanguage, loading, result, error,
                 isDirty, showLanguageAnimation, ranWith, cleanup, requests, reading,
                 started, autoSent>>

NextUI ==
  \/ RunEffects
  \/ \E t \in UITexts : HandleEditorChange(t)
  \/ AnalyzeClick
  \/ \E t \in timers : TimerFires(t)
  \/ \E t \in FileTexts : HandleFileUpload(t)
  \/ \E u \in reading : ReaderLoads(u)
  \/ \E r \in requests : Resolves(r)
  \/ \E r \in requests, msg \in FailureMessages : Rejects(r, msg)
  \/ AnimationEnds
  \/ \E d \in TimeSteps : Tick(d)

SpecUI == InitUI /\ [][NextUI]_vars

(***************************************************************************)
(* Properties.                                                             *)
(***************************************************************************)
\* The precedence table of the specification (section 4.1).
Precedence ==
  <<"Java", "C++", "C", "TypeScript", "Go", "Rust", "Python", "JavaScript", "Ruby", "PHP">>

\* The text contains a signature token of the language: its pattern matches.
HasTokens(name, s) == Test(Rule(name).pattern, Rule(name).flags, s)
\* The positions, in precedence order, of the languages whose tokens s holds.
TokenRanks(s) == {n \in 1..Len(Precedence) : HasTokens(Precedence[n], s)}
\* The positions of the rules of LANGUAGE_PATTERNS whose pattern matches s.
MatchingRules(s) ==
  {n \in 1..Len(LANGUAGE_PATTERNS) :
     Test(LANGUAGE_PATTERNS[n].pattern, LANGUAGE_PATTERNS[n].flags, s)}
\* C1: whenever the prose scorer returns true, detectLanguage returns the
\* Plain Text descriptor and tests no pattern of the registry, also when the
\* text matches a language signature.
C1_ProseShortCircuit ==
  (pc = "done" /\ scorer.ret) => (lang = PlainTextLang /\ testedRules = 0)
\* A prose text with the printf( token of C has been classified.
C1_Witness ==
  /\ pc = "done"
  /\ code = Join(<<ProseLine, TokenLine>>)
  /\ scorer.ret
  /\ HasTokens("C", code)
  /\ lang = PlainTextLang

\* C2: when the prose scorer returns false, detectLanguage returns the
\* descriptor of the first rule in LANGUAGE_PATTERNS order whose pattern
\* matches, and the Plain Text descriptor when none matches.
C2_FirstMatchWins ==
  (pc = "done" /\ ~scorer.ret) =>
    LET M == MatchingRules(code)
    IN  IF M = {} THEN lang = PlainTextLang
        ELSE lang = LANGUAGE_PATTERNS[Least(M)].lang
\* A text that matches both the C++ and the C rule was labelled C++.
C2_Witness ==
  /\ pc = "done"
  /\ code = Join(<<CppLine, CLine>>)
  /\ ~scorer.ret
  /\ {2, 3} \subseteq MatchingRules(code)
  /\ lang = CppLang

\* C3 as stated: the scorer's verdict is true if and only if the descriptor
\* returned is the Plain Text descriptor.
C3_Original == pc = "done" => (scorer.ret <=> lang = PlainTextLang)
\* C3 as amended: the descriptor returned is Plain Text if and only if the
\* scorer's verdict is true or no rule of the registry matches the text.
C3_PlainIffProseOrNoMatch ==
  pc = "done" => (lang = PlainTextLang <=> (scorer.ret \/ MatchingRules(code) = {}))
\* A text the scorer takes for code and no rule matches was labelled Plain Text.
C3_Witness ==
  /\ pc = "done"
  /\ code = Chars("x;")
  /\ ~scorer.ret
  /\ MatchingRules(code) = {}
  /\ lang = PlainTextLang

\* C4 as stated: a text with the signature tokens of two registry languages
\* is labelled with the one that comes first in the precedence order.
C4_Original ==
  pc = "done" =>
    LET T == TokenRanks(code)
    IN  Cardinality(T) = 2 => lang.name = Precedence[Least(T)]
\* C4 as amended: such a text is labelled with the language that comes first
\* in the precedence order when the scorer's verdict is false, and Plain Text
\* when it is true.
C4_PrecedenceUnlessProse ==
  pc = "done" =>
    LET T == TokenRanks(code)
    IN  Cardinality(T) = 2 =>
          IF scorer.ret THEN lang = PlainTextLang
          ELSE lang.name = Precedence[Least(T)]
\* A text with std:: and printf( was labelled C++.
C4_Witness ==
  /\ pc = "done"
  /\ code = Join(<<CLine, CppLine>>)
  /\ TokenRanks(code) = {2, 3}
  /\ lang.name = "C++"

\* C5: the registry holds exactly the ten rules Java, C++, C, TypeScript, Go,
\* Rust, Python, JavaScript, Ruby, PHP in this order, in every state any
\* sequence of calls reaches.
C5_RegistryFixed ==
  /\ Len(LANGUAGE_PATTERNS) = 10
  /\ registry = Precedence
  /\ registry = [n \in 1..Len(LANGUAGE_PATTERNS) |-> LANGUAGE_PATTERNS[n].lang.name]
\* A call has walked the whole registry.
C5_Witness ==
  /\ pc = "done"
  /\ ~scorer.ret
  /\ testedRules = Len(registry)
  /\ matchedRule = Len(registry)

\* C6: a call of detectLanguage returns the same descriptor as an earlier
\* call with the same text, whatever was called in between.
C6_Deterministic ==
  (pc = "done" /\ memo.set /\ memo.text = code) => lang = memo.lang
\* The same text was classified again after a call on another text.
C6_Witness ==
  /\ pc = "done"
  /\ memo.set
  /\ memo.text = code
  /\ memo.between
  /\ ~scorer.ret
  /\ matchedRule > 0

Descriptors ==
  {JavaLang, CppLang, CLang, TypeScriptLang, GoLang, RustLang, PythonLang,
   JavaScriptLang, RubyLang, PhpLang, PlainTextLang}
WhiteSpaceOnly(s) == \A i \in 1..Len(s) : s[i] \in WhiteSpace

\* C7: every call returns one of the eleven descriptors, and on the empty
\* string and on a text of white space alone it takes the short-input path
\* and returns Plain Text.
C7_TotalAndBlankIsPlain ==
  pc = "done" =>
    /\ lang \in Descriptors
    /\ WhiteSpaceOnly(code) =>
         (scorer.regime = "short" /\ scorer.ret /\ lang = PlainTextLang)
\* A text of white space on two lines has been classified.
C7_Witness ==
  /\ pc = "done"
  /\ code = <<" ", " ", "\n", "\t">>
  /\ scorer.regime = "short"
  /\ lang = PlainTextLang

StructuralCount(s) == Cardinality({i \in 1..Len(s) : s[i] \in {"{", "}", ";"}})

\* C9 as stated: with two or more non-empty lines, all of them neutral,
\* isPlainText returns true exactly when there are more than 3 lines and
\* fewer than 3 structural symbols in the text, 0 included.
C9_NeutralFallback ==
  (pc = "done" /\ scorer.nLines >= 2 /\ scorer.proseLines + scorer.codeLines = 0) =>
    (scorer.ret <=> (scorer.nLines > 3 /\ StructuralCount(code) < 3))

BlankPiece(l) == \A i \in 1..Len(l) : l[i] \in WhiteSpace
\* The number of lines of s with a character that is not white space.
NonEmptyLines(s) == Cardinality({n \in 1..Len(split(s)) : ~BlankPiece(split(s)[n])})
\* s begins with kw, then white space, then a word character.
BeginsWith(s, kw) ==
  /\ Len(s) > Len(kw)
  /\ SubSeq(s, 1, Len(kw)) = kw
  /\ \E j \in (Len(kw) + 1)..(Len(s) - 1) :
       /\ \A i \in (Len(kw) + 1)..j : s[i] \in WhiteSpace
       /\ s[j + 1] \in WordChar
BeginsWithDeclaration(s) ==
  \E str \in {"def", "function", "class", "public", "private"} :
     BeginsWith(s, Chars(str))
EndsWithTerminator(s) == s # <<>> /\ s[Len(s)] \in {"{", "}", ";"}

\* C10: on a text with fewer than 2 non-empty lines isPlainText returns false
\* exactly when the trimmed text begins with a declaration keyword, white
\* space and a word, or ends with one of { } ; and it counts no line.
C10_ShortInput ==
  (pc = "done" /\ NonEmptyLines(code) < 2) =>
    /\ scorer.ret <=>
         ~(BeginsWithDeclaration(trim(code)) \/ EndsWithTerminator(trim(code)))
    /\ scorer.regime = "short"
    /\ scorer.proseLines = 0 /\ scorer.codeLines = 0
\* A declaration header alone on its line was taken for code.
C10_Witness ==
  /\ pc = "done"
  /\ code = Chars("def foo():")
  /\ BeginsWithDeclaration(trim(code))
  /\ ~EndsWithTerminator(trim(code))
  /\ ~scorer.ret

\* The non-empty lines of s, as isPlainText computes them.
CountedLines(s) == filter(split(trim(s)))
\* The buckets a line with the signals p (prose) and c (code) belongs to.
Buckets(p, c) ==
  {b \in {"prose", "code", "neutral"} :
     \/ b = "prose" /\ p /\ ~c
     \/ b = "code" /\ c /\ ~p
     \/ b = "neutral" /\ ((p /\ c) \/ (~p /\ ~c))}
LineBuckets(lines) ==
  [n \in 1..Len(lines) |-> Buckets(isProse(trim(lines[n])), isCode(trim(lines[n])))]
InBucket(B, b) == Cardinality({n \in DOMAIN B : b \in B[n]})
CountsAgree(B, sc) ==
  /\ \A n \in DOMAIN B : Cardinality(B[n]) = 1
  /\ sc.nLines = Len(B)
  /\ sc.proseLines = InBucket(B, "prose")
  /\ sc.codeLines = InBucket(B, "code")
  /\ sc.proseLines + sc.codeLines = sc.nLines - InBucket(B, "neutral")
  /\ sc.proseLines + sc.codeLines <= sc.nLines

\* C11: with two or more non-empty lines every line is in exactly one of the
\* buckets prose, code and neutral, proseLines and codeLines are the sizes of
\* the first two, and their sum is at most the number of non-empty lines.
C11_LineBuckets ==
  (pc = "done" /\ scorer.regime \in {"ratio", "neutral"}) =>
    CountsAgree(LineBuckets(CountedLines(code)), scorer)
\* A text with a line of both signals, a prose line, a code line and a line
\* of neither signal has been scored.
C11_Witness ==
  /\ pc = "done"
  /\ code = Join(<<Chars("if"), ProseLine, CppLine, NeutralLine>>)
  /\ isProse(Chars("if")) /\ isCode(Chars("if"))
  /\ scorer.nLines = 4
  /\ scorer.proseLines = 1
  /\ scorer.codeLines = 1

\* The names of the ten languages of the registry and of Plain Text.
LanguageNames ==
  {"Java", "C++", "C", "TypeScript", "Go", "Rust", "Python", "JavaScript", "Ruby",
   "PHP", "Plain Text"}

\* C12: every call returns one descriptor of four fields whose name is one of
\* the eleven names, and a descriptor named Plain Text has the monacoId
\* plaintext, the page icon and the colour #6B7280, whether it comes from the
\* prose short-circuit or from the return after the loop.
C12_ClosedNamesOnePlainText ==
  pc = "done" =>
    /\ DOMAIN lang = {"name", "monacoId", "icon", "color"}
    /\ lang.name \in LanguageNames
    /\ (scorer.ret \/ matchedRule = 0) =>
         /\ lang.name = "Plain Text"
         /\ lang.monacoId = "plaintext"
         /\ lang.icon = "U+1F4C4"
         /\ lang.color = "#6B7280"
    /\ lang.name = "Plain Text" => (scorer.ret \/ matchedRule = 0)
\* A call has returned Plain Text after the loop tested all ten patterns.
C12_Witness ==
  /\ pc = "done"
  /\ ~scorer.ret
  /\ testedRules = 10
  /\ matchedRule = 0
  /\ lang.name = "Plain Text"
  /\ lang.monacoId = "plaintext"


\* C13: the text #include <iostream> / int main(){ std::cout<<1; } is scored
\* in the multi-line regime as not prose, matches both the C++ and the C rule
\* and is labelled C++.
C13_CppNotC ==
  (pc = "done" /\ code = CppScenario) =>
    /\ scorer.regime = "ratio"
    /\ ~scorer.ret
    /\ lang = CppLang
    /\ lang.name # "C"
\* The scenario has been classified, and the C rule matches it too.
C13_Witness ==
  /\ pc = "done"
  /\ code = CppScenario
  /\ Test(CppPattern, NoFlags, code)
  /\ Test(CPattern, NoFlags, code)
  /\ matchedRule = 2
  /\ lang.name = "C++"

\* C14: the text def foo(): / return 1 has one code line and one neutral
\* line, is not prose and is labelled Python, not TypeScript, Go, JavaScript
\* or Ruby.
C14_PythonDef ==
  (pc = "done" /\ code = PythonScenario) =>
    /\ scorer.regime = "ratio"
    /\ scorer.proseLines = 0 /\ scorer.codeLines = 1 /\ scorer.nLines = 2
    /\ ~scorer.ret
    /\ lang = PythonLang
    /\ lang.name \notin {"TypeScript", "Go", "JavaScript", "Ruby"}
\* The scenario has been classified; its body line has neither signal and
\* the Ruby rule matches the text too.
C14_Witness ==
  /\ pc = "done"
  /\ code = PythonScenario
  /\ ~isProse(Chars("return 1")) /\ ~isCode(Chars("return 1"))
  /\ Test(RubyPattern, {"m"}, code)
  /\ matchedRule = 7
  /\ lang.name = "Python"

\* The position of the Ruby rule in LANGUAGE_PATTERNS.
RubyRule == CHOOSE n \in 1..Len(LANGUAGE_PATTERNS) : LANGUAGE_PATTERNS[n].lang.name = "Ruby"

\* C21 as stated: every text of a def line, body lines and a closing end line
\* that matches no rule earlier than Ruby in the registry is detected as Ruby.
C21_RubyMarkers ==
  (pc = "done" /\ code \in RubyTexts /\ Least(MatchingRules(code)) = RubyRule) =>
    lang.name = "Ruby"

\* The trimmed line t is one of the keywords, alone or followed by white
\* space and more.
StartsWithKeyword(t) ==
  \E k \in Keywords :
     \/ t = k
     \/ Len(t) > Len(k) /\ SubSeq(t, 1, Len(k)) = k /\ t[Len(k) + 1] \in WhiteSpace
KeywordLinesNotProse(lines, sc) ==
  /\ \A n \in 1..Len(lines) :
       StartsWithKeyword(trim(lines[n])) => ~ShortWordOnly(trim(lines[n]))
  /\ sc.proseLines <= Cardinality({n \in 1..Len(lines) : trim(lines[n]) \notin Keywords})

\* C18 as stated: with two or more non-empty lines, no line whose trimmed
\* text is one of if, for, while, def, class, return, import, from, alone or
\* followed by words, matches the short word-only prose signal, and no line
\* that is such a keyword alone is counted in proseLines.
C18_KeywordNeverProse ==
  (pc = "done" /\ scorer.regime \in {"ratio", "neutral"}) =>
    KeywordLinesNotProse(CountedLines(code), scorer)

\* t begins with a capital letter and ends in . ! or ?
CapitalToStop(t) ==
  Len(t) >= 2 /\ t[1] \in UpperCase /\ t[Len(t)] \in {".", "!", "?"}
\* Between its first and last character t has one or more letters, white
\* space, commas and quotes, and nothing else.
PlainMiddle(t) ==
  /\ Len(t) >= 3
  /\ \A i \in 2..(Len(t) - 1) : t[i] \in Letter \cup WhiteSpace \cup {",", "'", "\""}
\* C19 as stated: every counted line from a capital letter to a final . ! or
\* ? matches the sentence-like prose signal.
C19_Original ==
  (pc = "done" /\ scorer.regime \in {"ratio", "neutral"}) =>
    \A n \in 1..Len(CountedLines(code)) :
       CapitalToStop(trim(CountedLines(code)[n])) =>
         SentenceLike(trim(CountedLines(code)[n]))
\* C19 as amended: a counted line matches the sentence-like prose signal
\* exactly when it goes from a capital letter to a final . ! or ? with one or
\* more letters, white space, commas and quotes, and nothing else, in between.
C19_SentenceOfLettersOnly ==
  (pc = "done" /\ scorer.regime \in {"ratio", "neutral"}) =>
    \A n \in 1..Len(CountedLines(code)) :
       SentenceLike(trim(CountedLines(code)[n])) <=>
         (CapitalToStop(trim(CountedLines(code)[n]))
            /\ PlainMiddle(trim(CountedLines(code)[n])))
\* A sentence with a comma and quotes was counted as prose beside two code lines.
C19_Witness ==
  /\ pc = "done"
  /\ code = Join(<<Chars("Hello, \"you\"!"), CppLine, CppLine>>)
  /\ SentenceLike(Chars("Hello, \"you\"!"))
  /\ scorer.proseLines = 1
  /\ scorer.codeLines = 2

C15_LabelOfAnalysedText ==
  ~result.isNull => result.language = DetectedOf[result.text].lang.name

\* The name displayed is the name detectLanguage returns for the editor text.
DisplayedIsDetected == detectedLanguage.name = DetectedOf[code].lang.name
\* C16: at the first render and whenever no effect is pending, the name of
\* detectedLanguage is the name detectLanguage(code) returns; and a step
\* replaces detectedLanguage, or starts the animation, only with the
\* descriptor of the current text and only when its name differs from the
\* name displayed before.
C16_DisplayedLanguage ==
  /\ []((~ranWith.mounted \/ ~EffectsPending) => DisplayedIsDetected)
  /\ [][(detectedLanguage' # detectedLanguage
           \/ (showLanguageAnimation' /\ ~showLanguageAnimation)
           \/ (AnimationMs \in animations' /\ AnimationMs \notin animations)) =>
         (/\ detectedLanguage'.name # detectedLanguage.name
          /\ detectedLanguage' = DetectedOf[code].lang
          /\ showLanguageAnimation'
          /\ AnimationMs \in animations')]_vars
\* After an edit to the Python text and its effects, Python is displayed and
\* the animation is on.
C16_Witness ==
  /\ ~EffectsPending
  /\ ranWith.mounted
  /\ code = PythonScenario
  /\ isDirty
  /\ detectedLanguage = PythonLang
  /\ showLanguageAnimation
  /\ AnimationMs \in animations

\* The requests the step starts from the timer of the auto-analyze effect.
TimerRequests == {r \in requests' \ requests : r.via = "timer"}
\* C17: a request is started by the debounce timer only for the current
\* text, with isDirty true, at least 15 characters and 2000 ms since the text
\* last changed; at most one debounce timer is pending, and once the effects
\* of a change have run, a pending timer is one set for the current text
\* after its last change.
C17_Debounce ==
  /\ [][\A r \in TimerRequests :
          /\ r.text = code
          /\ isDirty
          /\ Len(code) >= MinAutoLength
          /\ sinceChange >= DebounceMs]_vars
  /\ [](Cardinality(timers) <= 1)
  /\ [](~EffectsPending =>
          \A t \in timers :
             t.text = code /\ isDirty /\ DebounceMs - t.left <= sinceChange)
\* The debounce timer has started a request for the current text, 2000 ms
\* after its last change.
C17_Witness ==
  /\ \E r \in requests : r.via = "timer" /\ r.text = code
  /\ isDirty
  /\ sinceChange = DebounceMs
  /\ timers = {}
  /\ loading

\* C22 as stated: at most one analysis request is in flight at any time; no
\* call of analyzeCode starts while an earlier one has not settled.
C22_OneInFlight == Cardinality(requests) <= 1

\* C23 as stated: the displayed result is the response to the most recently
\* started request; a response to an older request never replaces the result
\* of a request started after it.
C23_NewerResultStays == [][~result.isNull => result'.id >= result.id]_vars

\* C24 as stated: loading is true in every state in which an analysis request
\* is in flight and false in every state in which none is.
C24_LoadingIffInFlight == loading <=> requests # {}

\* C25: when a request fails, error becomes the message of the failure, or
\* "Analysis failed" when the message is empty, loading becomes false, and
\* result and isDirty stay as they were; every step that starts a request
\* sets error to null.
C25_FailureAndReset ==
  [][(\A r \in requests, msg \in FailureMessages :
        Rejects(r, msg) =>
          /\ error' = (IF msg = "" THEN "Analysis failed" ELSE msg)
          /\ error' \notin {Null, ""}
          /\ loading' = FALSE
          /\ result' = result
          /\ isDirty' = isDirty)
     /\ (started' > started => error' = Null)]_vars
\* The second request failed with an empty message after the first had
\* succeeded and the text had been edited: the first result and isDirty stay.
C25_Witness ==
  /\ error = "Analysis failed"
  /\ ~loading
  /\ requests = {}
  /\ started = 2
  /\ result.id = 1
  /\ isDirty

\* The calls of handleAnalyze with a text that is empty after trim().
BlankClick == AnalyzeClick /\ trim(code) = <<>>
BlankTimer == \E t \in timers : TimerFires(t) /\ trim(t.text) = <<>>
BlankUpload == \E u \in reading : ReaderLoads(u) /\ trim(u.text) = <<>>
\* C26: a call of handleAnalyze with an empty or white-space-only text sends
\* no request and leaves loading, error, result and isDirty as they are at
\* the call (reader.onload has set isDirty to true before it calls).
C26_BlankSendsNothing ==
  [][((BlankClick \/ BlankTimer \/ BlankUpload) =>
        UNCHANGED <<requests, started, loading, error, result>>)
     /\ ((BlankClick \/ BlankTimer) => UNCHANGED isDirty)
     /\ (BlankUpload => isDirty')]_vars
\* The timer set for the white-space text has run, its callback has called
\* handleAnalyze, and no request has ever been sent.
C26_Witness ==
  /\ code = BlankText
  /\ ~EffectsPending
  /\ timers = {}
  /\ sinceChange = DebounceMs
  /\ isDirty
  /\ started = 0
  /\ requests = {}
  /\ ~loading
  /\ error = Null
  /\ result = NoResult

\* C27: between two changes of the text (editor changes, file loads) the
\* timers start at most one request; once they have started one, no timer
\* is pending, whether that request succeeded, failed or is in flight.
C27_AtMostOneAutomatic ==
  /\ autoSent <= 1
  /\ (autoSent = 1 /\ ~EffectsPending) => timers = {}
\* The automatic request for the text has failed: isDirty is still true, two
\* more seconds have passed, and no timer is pending.
C27_Witness ==
  /\ autoSent = 1
  /\ requests = {}
  /\ error # Null
  /\ isDirty
  /\ ~EffectsPending
  /\ timers = {}
  /\ sinceChange = DebounceMs
  /\ started < MaxRequests
====
